---- MODULE Spec2Model ----
(***************************************************************************)
(* A model of qttour (src/qttour/__init__.py): the TourManager state       *)
(* machine, the coachmark widgets it creates, the application-wide         *)
(* DisabledClickEventFilter, the mutable TourSequence objects of the       *)
(* caller, and the double-checked construction of the TourManager          *)
(* singleton.                                                              *)
(*                                                                         *)
(* Every method of the source is an operator from a "world" (a record of   *)
(* all the objects) to a world, so that a method that calls another, or a  *)
(* signal that runs a slot, is the composition the code performs.  An      *)
(* action of the model is one entry from the event loop (a user input, a   *)
(* call by the application) run to completion.                             *)
(***************************************************************************)
EXTENDS Integers, Sequences, FiniteSets, TLC

VARIABLES
    mgr,        \* the TourManager's fields
    filt,       \* the DisabledClickEventFilter's fields
    installed,  \* whether the filter is in the application's filter list
    marks,      \* every CoachmarkWidget constructed so far, by identity
    stack,      \* the coachmarks that are shown, the one shown last on top
    seqs,       \* the caller's TourSequence objects: their step lists
    layout,     \* where the window currently is on screen
    overlayMask,\* the cutout of the dimming overlay's mask
    slots,      \* the application's slot connected to a signal of the tour
    dialog,     \* the coachmark whose keyPressEvent waits in ask_confirmation
    nested,     \* the entries the event loop of that dialog has run so far
    limits,     \* the bounds this specification explores the program within
    detours,    \* the entries so far that left the course of a tour
    emitted,    \* observer: what the last entry emitted or called, in order
    lastOp,     \* observer: the last entry, its arguments, the manager before
    tour,       \* observer: the current undisturbed tour, see Observe
    instance,   \* TourManager.__instance
    lock,       \* TourManager.__lock: its holder, or NoThread
    pc,         \* each thread's position in TourManager.instance()
    ret,        \* what instance() returned to each thread
    constructed \* how many TourManager objects were constructed

mvars == <<mgr, filt, installed, marks, stack, seqs, layout, overlayMask, slots, dialog,
           nested, limits, detours, emitted, lastOp, tour>>
ivars == <<instance, lock, pc, ret, constructed>>
vars == <<mgr, filt, installed, marks, stack, seqs, layout, overlayMask, slots, dialog,
          nested, limits, detours, emitted, lastOp, tour,
          instance, lock, pc, ret, constructed>>

(***************************************************************************)
(* Bounds of the model.  The program is explored two ways: with every      *)
(* entry in any order, on sequences of up to ShortLen steps and up to      *)
(* FewMarks coachmarks constructed; and along tours of up to MaxLen steps  *)
(* with up to MaxMarks coachmarks constructed, which leave their course    *)
(* (see Detour) up to MaxDetours times.                                    *)
(***************************************************************************)
MaxLen == 3
MaxMarks == 4
MaxDetours == 1
ShortLen == 2
FewMarks == 2
MaxMoves == 1
MaxNested == 1
NThreads == 3

(***************************************************************************)
(* Null references.                                                        *)
(***************************************************************************)
None == "None"
NoMark == 0
NoStep == 0
NoSeq == 0
NoThread == 0
NoInstance == 0

(***************************************************************************)
(* The widgets of the application (two buttons "btn1" and "btn2", a label  *)
(* "lbl") and the TourStep objects a tour author constructed on them: one  *)
(* with the defaults, one with a text bubble and an action button that     *)
(* does not delegate the click, one on a widget that is not a button.      *)
(***************************************************************************)
IsAbstractButton(wdg) == wdg \in {"btn1", "btn2"}

StepTable ==
    << [widget |-> "btn1", message |-> "", delegateClick |-> TRUE,
        action |-> ""],
       [widget |-> "btn2", message |-> "Text bubble", delegateClick |-> FALSE,
        action |-> "Next"],
       [widget |-> "lbl", message |-> "", delegateClick |-> TRUE,
        action |-> ""] >>

Steps == 1..Len(StepTable)

widget(step) == StepTable[step].widget

delegateClick(step) == StepTable[step].delegateClick

message(step) == StepTable[step].message

action(step) == StepTable[step].action

SeqIds == {1}

(***************************************************************************)
(* Geometry.  A rectangle is [x, y, w, h]; a point is <<x, y>>.            *)
(***************************************************************************)
padding == 10
BubbleRoomW == 220
BubbleRoomH == 200

WindowPos(lay) == <<300 * lay, 0>>

LocalRect(wdg) ==
    CASE wdg = "btn1" -> [x |-> 100, y |-> 100, w |-> 80, h |-> 30]
      [] wdg = "btn2" -> [x |-> 100, y |-> 160, w |-> 80, h |-> 30]
      [] OTHER        -> [x |-> 500, y |-> 400, w |-> 50, h |-> 20]

NoRect == [x |-> 0, y |-> 0, w |-> 0, h |-> 0]

Contains(r, p) ==
    /\ r.x <= p[1] /\ p[1] <= r.x + r.w - 1
    /\ r.y <= p[2] /\ p[2] <= r.y + r.h - 1

global_pos(lay, wdg) ==
    <<WindowPos(lay)[1] + LocalRect(wdg).x, WindowPos(lay)[2] + LocalRect(wdg).y>>

global_rect(lay, wdg) ==
    [x |-> global_pos(lay, wdg)[1], y |-> global_pos(lay, wdg)[2],
     w |-> LocalRect(wdg).w, h |-> LocalRect(wdg).h]

map_from_global_rect(lay, r) ==
    [x |-> r.x - WindowPos(lay)[1], y |-> r.y - WindowPos(lay)[2],
     w |-> r.w, h |-> r.h]

(***************************************************************************)
(* What an entry emits or calls, in order.                                 *)
(***************************************************************************)
Event(name, step, wdg, w) ==
    [ev |-> name, step |-> step, wdg |-> wdg, idx |-> w.mgr.stepIndex]

Emit(w, name, step, wdg) ==
    [w EXCEPT !.out = Append(@, Event(name, step, wdg, w))]

(***************************************************************************)
(* CoachmarkWidget.                                                        *)
(***************************************************************************)
CoachmarkWidget(w, step) ==
    LET pos == global_pos(w.layout, widget(step))
        frame == [w |-> LocalRect(widget(step)).w + padding * 2,
                  h |-> LocalRect(widget(step)).h + padding * 2]
    IN [step |-> step,
        frame |-> frame,
        rect |-> [x |-> pos[1] - padding, y |-> pos[2] - padding,
                  w |-> frame.w + BubbleRoomW, h |-> frame.h + BubbleRoomH],
        button |-> message(step) # "" /\ action(step) # "",
        visible |-> FALSE,
        closeAllowed |-> FALSE]

(* A coachmark is a top-level window (Qt.WindowType.Popup): one that is    *)
(* shown goes on top of those shown before it, one that is closed leaves   *)
(* the screen.                                                             *)
Raise(st, m) ==
    IF \E i \in 1..Len(st) : st[i] = m THEN st ELSE Append(st, m)

Drop(st, m) == SelectSeq(st, LAMBDA n : n # m)

show(w, m) ==
    [w EXCEPT !.marks[m].visible = TRUE, !.marks[m].closeAllowed = FALSE,
              !.stack = Raise(@, m)]

closeEvent_AcceptsAll(w, m) ==
    [w EXCEPT !.marks[m].visible = FALSE, !.stack = Drop(@, m)]

closeEvent(w, m) ==
    IF w.marks[m].closeAllowed
    THEN [w EXCEPT !.marks[m].visible = FALSE, !.stack = Drop(@, m)]
    ELSE w

(***************************************************************************)
(* DisabledClickEventFilter.                                               *)
(***************************************************************************)
setWidget(w, wdg) == [w EXCEPT !.filt.widget = wdg]

setMark(w, m) == [w EXCEPT !.filt.mark = m]

(* QWidget.underMouse() is the state of the pointer, not of the event: it  *)
(* holds of the widget the pointer is over, which is the window on top at  *)
(* the pointer.  The coachmarks are windows above the application's, so    *)
(* the pointer at p is over the coachmark shown last among those whose     *)
(* geometry holds p, and over a widget of the application's window only    *)
(* where no shown coachmark is.  A coachmark that is not shown is under no *)
(* pointer.                                                                *)
Covering(w, p) ==
    { i \in 1..Len(w.stack) : Contains(w.marks[w.stack[i]].rect, p) }

Top(w, p) ==
    LET over == Covering(w, p)
    IN IF over = {}
       THEN NoMark
       ELSE w.stack[CHOOSE i \in over : \A j \in over : j <= i]

markUnderMouse(w, m, p) == Top(w, p) = m

widgetUnderMouse(w, wdg, p) ==
    Top(w, p) = NoMark /\ Contains(global_rect(w.layout, wdg), p)

(* The pointer is where the window system delivers a press; eventFilter    *)
(* never reads the position of the event itself.                           *)
eventFilter(w, event) ==
    IF event.type = "MouseButtonPress"
    THEN IF w.filt.widget = None \/ w.filt.mark = NoMark
         THEN TRUE
         ELSE IF markUnderMouse(w, w.filt.mark, event.pos)
              THEN FALSE
              ELSE IF widgetUnderMouse(w, w.filt.widget, event.pos)
                   THEN FALSE
                   ELSE TRUE
    ELSE FALSE

(***************************************************************************)
(* TourSequence.                                                           *)
(***************************************************************************)
addStep(w, q, step) == [w EXCEPT !.seqs[q] = Append(@, step)]

addSteps(w, q, steps) == [w EXCEPT !.seqs[q] = @ \o steps]

clear(w, q) == [w EXCEPT !.seqs[q] = << >>]

(***************************************************************************)
(* TourManager.                                                            *)
(***************************************************************************)
TourManager ==
    [started |-> FALSE, finishNext |-> FALSE, stepIndex |-> 0,
     sequence |-> NoSeq, mark |-> NoMark, currentStep |-> NoStep,
     overlay |-> None]

start(w) ==
    LET w1 == [w EXCEPT !.mgr.started = TRUE]
        w2 == [Emit(w1, "installEventFilter", NoStep, None)
                  EXCEPT !.installed = TRUE]
    IN Emit(w2, "tourStarted", NoStep, None)

_activate_NewOverlay(w, step) ==
    LET w1 == [w EXCEPT !.mgr.currentStep = step]
        w2 == setWidget(w1, widget(step))
        m  == Len(w2.marks) + 1
        w3 == [w2 EXCEPT !.marks = Append(@, CoachmarkWidget(w2, step)),
                         !.mgr.mark = m]
        w4 == [Emit(w3, "overlay", NoStep, None)
                  EXCEPT !.mgr.overlay = "overlay"]
        target_rect == global_rect(w4.layout, widget(step))
        w5 == [w4 EXCEPT !.overlayMask =
                            map_from_global_rect(w4.layout, target_rect)]
        w6 == setMark(w5, w5.mgr.mark)
    IN show(w6, w6.mgr.mark)

_activate(w, step) ==
    LET w1 == [w EXCEPT !.mgr.currentStep = step]
        w2 == setWidget(w1, widget(step))
        m  == Len(w2.marks) + 1
        w3 == [w2 EXCEPT !.marks = Append(@, CoachmarkWidget(w2, step)),
                         !.mgr.mark = m]
        w4 == IF w3.mgr.overlay = None
              THEN [Emit(w3, "overlay", NoStep, None)
                       EXCEPT !.mgr.overlay = "overlay"]
              ELSE w3
        target_rect == global_rect(w4.layout, widget(step))
        w5 == [w4 EXCEPT !.overlayMask =
                            map_from_global_rect(w4.layout, target_rect)]
        w6 == setMark(w5, w5.mgr.mark)
    IN show(w6, w6.mgr.mark)

(* self._activate(self._sequence.steps()[self._stepIndex]): the subscript  *)
(* raises IndexError when the index is not below the length of the list.   *)
activateAt_First(w) ==
    LET steps == w.seqs[w.mgr.sequence]
    IN IF steps # << >>
       THEN _activate(w, steps[1])
       ELSE [w EXCEPT !.raised = TRUE]

activateAt(w) ==
    LET steps == w.seqs[w.mgr.sequence]
    IN IF w.mgr.stepIndex < Len(steps)
       THEN _activate(w, steps[w.mgr.stepIndex + 1])
       ELSE [w EXCEPT !.raised = TRUE]

startAlways(w) == start(w)

startIfIdle(w) == IF ~ w.mgr.started THEN start(w) ELSE w

run(w, sequence, finishTour) ==
    LET w1 == startIfIdle(w)
        w2 == [w1 EXCEPT !.mgr.finishNext = finishTour,
                         !.mgr.sequence = sequence]
    IN IF w2.seqs[sequence] = << >>
       THEN w2
       ELSE activateAt([w2 EXCEPT !.mgr.stepIndex = 0])

(* The slot the application connected to tourFinished, when it is one that *)
(* chains a tour: it calls run().                                          *)
tourFinishedSlot(w) ==
    IF w.slots.signal = "tourFinished"
    THEN run(w, w.slots.seq, w.slots.fin)
    ELSE w

finish_KeepsFilter(w) ==
    LET w2 == [w EXCEPT !.mgr.mark = NoMark, !.mgr.started = FALSE]
        w3 == tourFinishedSlot(Emit(w2, "tourFinished", NoStep, None))
    IN IF w3.mgr.overlay # None
       THEN [w3 EXCEPT !.mgr.overlay = None, !.overlayMask = NoRect]
       ELSE w3

finish(w) ==
    LET w1 == [Emit(w, "removeEventFilter", NoStep, None)
                  EXCEPT !.installed = FALSE]
        w2 == [w1 EXCEPT !.mgr.mark = NoMark, !.mgr.started = FALSE]
        w3 == tourFinishedSlot(Emit(w2, "tourFinished", NoStep, None))
    IN IF w3.mgr.overlay # None
       THEN [w3 EXCEPT !.mgr.overlay = None, !.overlayMask = NoRect]
       ELSE w3

(* The slots connected to the target's clicked signal run inside click().   *)
(* Modelled is the application click handler C20 is about, one that builds  *)
(* a new TourSequence and calls run() on it; the repository's demo has no   *)
(* such handler on a target that a step clicks.  The sequence it builds     *)
(* takes the identity of the caller's sequence object, to which the slot's  *)
(* variable is rebound.                                                     *)
clickedSlot(w, wdg) ==
    IF w.slots.signal = "clicked" /\ w.slots.wdg = wdg
    THEN run([w EXCEPT !.seqs[w.slots.seq] = w.slots.steps],
             w.slots.seq, w.slots.fin)
    ELSE w

click(w, wdg) == clickedSlot(Emit(w, "click", NoStep, wdg), wdg)

delegateAlways(w) ==
    IF IsAbstractButton(widget(w.mgr.currentStep))
    THEN click(w, widget(w.mgr.currentStep))
    ELSE w

delegate(w) ==
    IF delegateClick(w.mgr.currentStep)
    THEN IF IsAbstractButton(widget(w.mgr.currentStep))
         THEN click(w, widget(w.mgr.currentStep))
         ELSE w
    ELSE w

(* The slots connected to a step's finished signal run inside its          *)
(* emission.  Modelled is one that appends a step to the sequence, as the  *)
(* lambda MainWindow._startTour connects to its first step.                *)
finishedSlot(w, step) ==
    IF w.slots.signal = "finished" /\ w.slots.step = step
    THEN addStep(w, w.slots.seq, w.slots.arg)
    ELSE w

completeNever(w) == w

completeAlways(w) == finish(w)

complete(w) == IF w.mgr.finishNext THEN finish(w) ELSE w

pastEnd_OffByOne(w) == w.mgr.stepIndex > Len(w.seqs[w.mgr.sequence])

pastEnd(w) == w.mgr.stepIndex >= Len(w.seqs[w.mgr.sequence])

_next_ChecksFirst(w) ==
    LET w1 == delegate(w)
        over == w1.mgr.stepIndex + 1 >= Len(w1.seqs[w1.mgr.sequence])
        w2 == finishedSlot(Emit(w1, "finished", w1.mgr.currentStep, None),
                           w1.mgr.currentStep)
        w3 == [w2 EXCEPT !.mgr.stepIndex = @ + 1]
    IN IF over
       THEN complete(w3)
       ELSE activateAt(w3)

_next(w) ==
    LET w1 == delegate(w)
        w2 == finishedSlot(Emit(w1, "finished", w1.mgr.currentStep, None),
                           w1.mgr.currentStep)
        w3 == [w2 EXCEPT !.mgr.stepIndex = @ + 1]
    IN IF pastEnd(w3)
       THEN complete(w3)
       ELSE activateAt(w3)

_click(w, m) ==
    LET w1 == [w EXCEPT !.marks[m].closeAllowed = TRUE]
        w2 == closeEvent(w1, m)
    IN _next(w2)

frameUnderMouse(w, m, p) ==
    /\ Top(w, p) = m
    /\ Contains([x |-> w.marks[m].rect.x, y |-> w.marks[m].rect.y,
                 w |-> w.marks[m].frame.w, h |-> w.marks[m].frame.h], p)

mouseReleaseEvent(w, m, p) ==
    IF frameUnderMouse(w, m, p) THEN _click(w, m) ELSE w

(* A close request that reaches the coachmark from outside its own code    *)
(* (the window system, the application): QWidget.close() delivers it to     *)
(* closeEvent, and the world remembers that the coachmark accepted one.     *)
closeRequest(w, m) ==
    LET w1 == closeEvent(w, m)
    IN [w1 EXCEPT !.closed = @ \/ (w.marks[m].visible /\ ~ w1.marks[m].visible)]

(* keyPressEvent up to its call of ask_confirmation(), which opens a modal *)
(* dialog and runs a nested event loop: the handler waits there, and other *)
(* entries of the application run, until the user answers.                 *)
keyPressEvent(w, m, key) ==
    IF key = "Escape"
    THEN [w EXCEPT !.marks[m].closeAllowed = TRUE, !.dialog = m]
    ELSE w

(* keyPressEvent from the return of ask_confirmation() on: `yes` is the    *)
(* user's answer; terminate is connected to TourManager.finish.            *)
ask_confirmation_NoShow(w, m, yes) ==
    LET w1 == [w EXCEPT !.dialog = NoMark]
    IN IF yes THEN finish(w1) ELSE w1

ask_confirmation(w, m, yes) ==
    LET w1 == [w EXCEPT !.dialog = NoMark]
    IN IF yes THEN finish(w1) ELSE show(w1, m)

(***************************************************************************)
(* TourManager.instance(): the double-checked construction, one bytecode-  *)
(* level step per action.                                                  *)
(***************************************************************************)
Threads == 1..NThreads

firstCheck(inst) == inst = NoInstance

secondCheckSkipped(inst) == TRUE

secondCheck(inst) == inst = NoInstance

InstanceCall(t) ==
    /\ pc[t] = "done"
    /\ pc' = [pc EXCEPT ![t] = "check1"]
    /\ UNCHANGED <<instance, lock, ret, constructed>>
    /\ UNCHANGED mvars

InstanceCheck1(t) ==
    /\ pc[t] = "check1"
    /\ pc' = [pc EXCEPT ![t] = IF firstCheck(instance) THEN "acquire" ELSE "return"]
    /\ UNCHANGED <<instance, lock, ret, constructed>>
    /\ UNCHANGED mvars

InstanceAcquire(t) ==
    /\ pc[t] = "acquire"
    /\ lock = NoThread
    /\ lock' = t
    /\ pc' = [pc EXCEPT ![t] = "check2"]
    /\ UNCHANGED <<instance, ret, constructed>>
    /\ UNCHANGED mvars

InstanceCheck2(t) ==
    /\ pc[t] = "check2"
    /\ pc' = [pc EXCEPT ![t] = IF secondCheck(instance) THEN "construct" ELSE "release"]
    /\ UNCHANGED <<instance, lock, ret, constructed>>
    /\ UNCHANGED mvars

InstanceConstruct(t) ==
    /\ pc[t] = "construct"
    /\ constructed' = constructed + 1
    /\ pc' = [pc EXCEPT ![t] = "assign"]
    /\ UNCHANGED <<instance, lock, ret>>
    /\ UNCHANGED mvars

InstanceAssign(t) ==
    /\ pc[t] = "assign"
    /\ instance' = constructed
    /\ pc' = [pc EXCEPT ![t] = "release"]
    /\ UNCHANGED <<lock, ret, constructed>>
    /\ UNCHANGED mvars

InstanceRelease(t) ==
    /\ pc[t] = "release"
    /\ lock' = NoThread
    /\ pc' = [pc EXCEPT ![t] = "return"]
    /\ UNCHANGED <<instance, ret, constructed>>
    /\ UNCHANGED mvars

InstanceReturn(t) ==
    /\ pc[t] = "return"
    /\ ret' = [ret EXCEPT ![t] = instance]
    /\ pc' = [pc EXCEPT ![t] = "done"]
    /\ UNCHANGED <<instance, lock, constructed>>
    /\ UNCHANGED mvars

(***************************************************************************)
(* Entries from the event loop.                                            *)
(***************************************************************************)
World ==
    [mgr |-> mgr, filt |-> filt, installed |-> installed, marks |-> marks,
     stack |-> stack, seqs |-> seqs, layout |-> layout,
     overlayMask |-> overlayMask, slots |-> slots, dialog |-> dialog,
     out |-> << >>, raised |-> FALSE, closed |-> FALSE]

Points ==
    { <<0, 0>>, <<95, 95>>, <<105, 105>>, <<105, 165>>, <<300, 200>>,
      <<450, 110>>, <<450, 165>>, <<510, 405>>, <<810, 405>> }

EventTypes == {"MouseButtonPress", "KeyPress"}

(* The events dispatched: a pointer press at each point, and each other    *)
(* type of event once, where its position plays no part.                   *)
Events ==
    { [type |-> "MouseButtonPress", pos |-> p] : p \in Points }
    \cup { [type |-> type, pos |-> <<0, 0>>] :
              type \in EventTypes \ {"MouseButtonPress"} }

Keys == {"Escape", "Other"}

Batches == { <<a>> : a \in Steps } \cup { <<a, b>> : a \in Steps, b \in Steps }

MarkIds == 1..Len(marks)

Op(name) ==
    [name |-> name, type |-> None, consumed |-> FALSE, flag |-> FALSE,
     wasStarted |-> mgr.started, onActive |-> FALSE,
     raised |-> FALSE, closed |-> FALSE]

(* What the entry met on its way: an IndexError, an accepted close request.*)
Outcome(op, w) == [op EXCEPT !.raised = w.raised, !.closed = w.closed]

(* The application's connections.  A slot is one of: none; on the finished *)
(* of `step`, append `arg` to sequence `seq`; on tourFinished, run `seq`;   *)
(* on the clicked of `wdg`, build `steps` and run them.                     *)
Slot(signal, step, arg, wdg, steps, fin) ==
    [signal |-> signal, step |-> step, arg |-> arg, wdg |-> wdg,
     steps |-> steps, fin |-> fin, seq |-> 1]

NoSlots == Slot(None, NoStep, NoStep, None, << >>, FALSE)

(* Three applications, each with one slot connected.  The first appends a  *)
(* step when the first step finishes, as the demo does.  The other two are *)
(* the handlers C19 and C20 are about and are not taken from the           *)
(* repository: one calls run() when the tour finishes, one is connected to *)
(* the clicked signal of a tour target and runs a new sequence.            *)
FinishedSlot == Slot("finished", 1, 2, None, << >>, FALSE)

TourFinishedSlot == Slot("tourFinished", NoStep, NoStep, None, << >>, TRUE)

ClickedSlot == Slot("clicked", NoStep, NoStep, "btn1", <<2>>, TRUE)

OnMark(name, m) ==
    [Op(name) EXCEPT !.onActive = mgr.started /\ m = mgr.mark]

Signals(out) ==
    SelectSeq(out, LAMBDA e : e.ev \in {"finished", "tourFinished"})

RunningSteps(w) ==
    IF w.mgr.sequence = NoSeq THEN << >> ELSE w.seqs[w.mgr.sequence]

NoTour ==
    [active |-> FALSE, steps |-> << >>, fin |-> FALSE, confirmed |-> 0,
     emissions |-> << >>]

(* The observer of a tour: the step list and flag run() was called with    *)
(* from Idle, the confirmations of the active coachmark since, and the     *)
(* signals emitted since, for as long as nothing else touched the manager, *)
(* the coachmarks or the running sequence.                                 *)
Observe(op, w) ==
    CASE op.name = "run" /\ ~ op.wasStarted ->
            [active |-> TRUE, steps |-> w.seqs[w.mgr.sequence],
             fin |-> w.mgr.finishNext,
             confirmed |-> 0, emissions |-> Signals(w.out)]
      [] op.name = "clicked" /\ tour.active /\ op.onActive
            /\ w.out # << >> ->
            [tour EXCEPT !.confirmed = @ + 1,
                         !.emissions = @ \o Signals(w.out)]
      [] op.name \in {"event", "relayout"} -> tour
      [] op.name \in {"escape", "answer", "key"} /\ w.out = << >> -> tour
      [] op.name \in {"edit", "clear"}
            /\ RunningSteps(w) = RunningSteps(World) -> tour
      [] OTHER -> NoTour

(* A coachmark that was closed is never shown again (show() is called at   *)
(* its construction and by its own keyPressEvent, which a closed widget    *)
(* does not receive), unless its keyPressEvent is waiting for the answer:  *)
(* the model keeps its identity and forgets the rest, except the geometry  *)
(* of the one the filter still holds.                                      *)
Closed ==
    [step |-> NoStep, frame |-> [w |-> 0, h |-> 0], rect |-> NoRect,
     button |-> FALSE, visible |-> FALSE, closeAllowed |-> FALSE]

Reclaim(ms, d, f) ==
    [m \in DOMAIN ms |->
        IF ms[m].visible \/ m = d THEN ms[m]
        ELSE IF m = f THEN [Closed EXCEPT !.rect = ms[m].rect]
        ELSE Closed]

Effect(w) == <<w.mgr, w.filt, w.installed,
               Reclaim(w.marks, w.dialog, w.filt.mark), w.stack, w.seqs,
               w.layout, w.overlayMask, w.dialog>>

(* An entry that changed nothing and emitted nothing leaves the observers  *)
(* as they were, except the dispatch of an event, whose outcome is the     *)
(* filter's answer, and the answer of the user to ask_confirmation().      *)
Silent(op, w) ==
    /\ op.name \notin {"event", "answer"}
    /\ w.out = << >>
    /\ Effect(w) = Effect(World)

(* The entries the event loop of an open dialog has run, once this one has. *)
Nesting(w) ==
    CASE w.dialog = NoMark -> 0
      [] dialog = NoMark -> 0
      [] OTHER -> nested + 1

(* The entries of a tour on its course: run() from Idle, steps appended,   *)
(* the manager's coachmark confirmed while Running, the user's answer to   *)
(* the confirmation, events dispatched.  Every other entry that changes    *)
(* something is a detour.                                                  *)
Detour(op) ==
    \/ op.name \in {"start", "finish", "clear", "relayout", "escape", "close"}
    \/ op.name = "run" /\ op.wasStarted
    \/ op.name = "clicked" /\ ~ op.onActive

Detours(op) ==
    IF limits.counted /\ Detour(op) THEN detours + 1 ELSE detours

Commit(op, w) ==
    /\ Len(w.marks) <= limits.marks
    /\ \A q \in SeqIds : Len(w.seqs[q]) <= limits.len
    /\ Nesting(w) <= MaxNested
    /\ UNCHANGED <<ivars, slots, limits>>
    /\ IF Silent(op, w)
       THEN UNCHANGED <<mgr, filt, installed, marks, stack, seqs, layout, overlayMask,
                        dialog, nested, detours, emitted, lastOp, tour>>
       ELSE /\ Detours(op) <= limits.detours
            /\ detours' = Detours(op)
            /\ mgr' = w.mgr
            /\ filt' = w.filt
            /\ installed' = w.installed
            /\ marks' = Reclaim(w.marks, w.dialog, w.filt.mark)
            /\ stack' = w.stack
            /\ dialog' = w.dialog
            /\ nested' = Nesting(w)
            /\ seqs' = w.seqs
            /\ layout' = w.layout
            /\ overlayMask' = w.overlayMask
            /\ emitted' = w.out
            /\ lastOp' = Outcome(op, w)
            /\ tour' = Observe(op, w)

Run(q, finishTour) ==
    /\ Commit(Op("run"),
              run(World, q, finishTour))

Finish ==
    /\ Commit(Op("finish"), finish(World))

AddStep(q, step) ==
    /\ Commit(Op("edit"), addStep(World, q, step))

AddSteps(q, steps) ==
    /\ Commit(Op("edit"), addSteps(World, q, steps))

Clear(q) ==
    /\ seqs[q] # << >>
    /\ Commit(Op("clear"), clear(World, q))

Relayout ==
    /\ layout < MaxMoves
    /\ Commit(Op("relayout"), [World EXCEPT !.layout = @ + 1])

(* TourManager.start() called by the application.                          *)
Start ==
    /\ Commit(Op("start"), start(World))

(* Input of the user to a coachmark reaches it while no dialog is open: an *)
(* open ask_confirmation() dialog is modal and takes the input.            *)
MouseRelease(m, p) ==
    /\ dialog = NoMark
    /\ marks[m].visible
    /\ markUnderMouse(World, m, p)
    /\ Commit(OnMark("clicked", m),
              mouseReleaseEvent(World, m, p))

(* A click on the action button of the coachmark's text bubble, whose      *)
(* clicked signal is connected to _click.                                  *)
ActionClick(m) ==
    /\ dialog = NoMark
    /\ marks[m].visible /\ marks[m].button
    /\ Commit(OnMark("clicked", m), _click(World, m))

(* The keyboard belongs to the coachmark shown last, the active popup.     *)
KeyPress(m, key) ==
    /\ dialog = NoMark
    /\ marks[m].visible
    /\ m = stack[Len(stack)]
    /\ Commit(OnMark(IF key = "Escape" THEN "escape" ELSE "key", m),
              keyPressEvent(World, m, key))

(* The user answers the dialog and ask_confirmation() returns.             *)
Answer(yes) ==
    /\ dialog # NoMark
    /\ Commit([OnMark("answer", dialog) EXCEPT !.flag = yes],
              ask_confirmation(World, dialog, yes))

CloseRequest(m) ==
    /\ marks[m].visible
    /\ Commit(OnMark("close", m), closeRequest(World, m))

DispatchEvent(event) ==
    /\ installed
    /\ Commit([Op("event") EXCEPT !.type = event.type,
                  !.consumed = eventFilter(World, event)],
              World)

(* Short sequences and few coachmarks, with every entry in any order; or   *)
(* longer tours that leave their course a bounded number of times.         *)
Wide == [len |-> ShortLen, marks |-> FewMarks, counted |-> FALSE,
         detours |-> 0]

Long == [len |-> MaxLen, marks |-> MaxMarks, counted |-> TRUE,
         detours |-> MaxDetours]

Constructed(slot, lim) ==
    /\ limits = lim
    /\ detours = 0
    /\ mgr = TourManager
    /\ filt = [widget |-> None, mark |-> NoMark]
    /\ installed = FALSE
    /\ marks = << >>
    /\ stack = << >>
    /\ seqs = [q \in SeqIds |-> << >>]
    /\ layout = 0
    /\ overlayMask = NoRect
    /\ slots = slot
    /\ dialog = NoMark
    /\ nested = 0
    /\ emitted = << >>
    /\ lastOp = Op("init")
    /\ tour = NoTour

MInit == Constructed(NoSlots, Wide)

IInit ==
    /\ instance = NoInstance
    /\ lock = NoThread
    /\ pc = [t \in Threads |-> "check1"]
    /\ ret = [t \in Threads |-> NoInstance]
    /\ constructed = 0

Init == MInit /\ IInit

Next ==
    \/ \E q \in SeqIds, finishTour \in BOOLEAN : Run(q, finishTour)
    \/ Start
    \/ Finish
    \/ \E q \in SeqIds, step \in Steps : AddStep(q, step)
    \/ \E q \in SeqIds, steps \in Batches : AddSteps(q, steps)
    \/ \E q \in SeqIds : Clear(q)
    \/ Relayout
    \/ \E m \in MarkIds, p \in Points : MouseRelease(m, p)
    \/ \E m \in MarkIds : ActionClick(m)
    \/ \E m \in MarkIds, key \in Keys : KeyPress(m, key)
    \/ \E yes \in BOOLEAN : Answer(yes)
    \/ \E m \in MarkIds : CloseRequest(m)
    \/ \E event \in Events : DispatchEvent(event)

Spec == Init /\ [][Next]_vars

(* The same entries, in an application that connected a slot.             *)
FinishedSlotInit == Constructed(FinishedSlot, Long) /\ IInit

FinishedSlotSpec == FinishedSlotInit /\ [][Next]_vars

TourFinishedSlotInit == Constructed(TourFinishedSlot, Wide) /\ IInit

TourFinishedSlotSpec == TourFinishedSlotInit /\ [][Next]_vars

ClickedSlotInit == Constructed(ClickedSlot, Wide) /\ IInit

LongTourInit == Constructed(NoSlots, Long) /\ IInit

LongTourSpec == LongTourInit /\ [][Next]_vars

ClickedSlotSpec == ClickedSlotInit /\ [][Next]_vars

InstanceNext ==
    \/ \E t \in Threads : InstanceCall(t)
    \/ \E t \in Threads : InstanceCheck1(t)
    \/ \E t \in Threads : InstanceAcquire(t)
    \/ \E t \in Threads : InstanceCheck2(t)
    \/ \E t \in Threads : InstanceConstruct(t)
    \/ \E t \in Threads : InstanceAssign(t)
    \/ \E t \in Threads : InstanceRelease(t)
    \/ \E t \in Threads : InstanceReturn(t)

InstanceSpec == Init /\ [][InstanceNext]_vars

(***************************************************************************)
(* Properties.                                                             *)
(***************************************************************************)
Count(out, name) == Len(SelectSeq(out, LAMBDA e : e.ev = name))

FinishedOf(steps) ==
    [i \in 1..Len(steps) |-> [ev |-> "finished", step |-> steps[i]]]

TourFinished == [ev |-> "tourFinished", step |-> NoStep]

Brief(out) == [i \in 1..Len(out) |-> [ev |-> out[i].ev, step |-> out[i].step]]

ExpectedOfTour(steps, confirmed) ==
    IF confirmed = Len(steps)
    THEN FinishedOf(steps) \o <<TourFinished>>
    ELSE FinishedOf(SubSeq(steps, 1, confirmed))

Press(p) == [type |-> "MouseButtonPress", pos |-> p]

(* C1 as amended: a tour of N >= 1 steps run from Idle with               *)
(* finishOnComplete=true and left undisturbed has emitted, after k         *)
(* confirmations, the 'finished' of its first k steps in order, and after  *)
(* the N-th also one tourFinished, last, the manager being Idle then and   *)
(* Running before.                                                         *)
C1_TourEmissions ==
    (tour.active /\ tour.fin /\ Len(tour.steps) >= 1) =>
        /\ tour.confirmed <= Len(tour.steps)
        /\ Brief(tour.emissions) = ExpectedOfTour(tour.steps, tour.confirmed)
        /\ mgr.started <=> tour.confirmed < Len(tour.steps)

(* C1 as stated: the same for every N >= 0, the empty sequence included.   *)
C1_Original ==
    (tour.active /\ tour.fin) =>
        /\ tour.confirmed <= Len(tour.steps)
        /\ Brief(tour.emissions) = ExpectedOfTour(tour.steps, tour.confirmed)
        /\ mgr.started <=> tour.confirmed < Len(tour.steps)

C1_Witness ==
    /\ tour.active /\ tour.fin
    /\ Len(tour.steps) = 2 /\ tour.steps[1] # tour.steps[2]
    /\ tour.confirmed = 2

(* An activation of a coachmark's highlight ran _next in this step.        *)
Advanced == lastOp'.name = "clicked" /\ emitted' # << >>

PressOn(step) ==
    [ev |-> "click", step |-> NoStep, wdg |-> widget(step),
     idx |-> mgr.stepIndex]

(* C2 as amended: an advance past a step with delegateClick=true whose     *)
(* target supports a press (is a QAbstractButton) synthesizes exactly one  *)
(* press, on that step's target, first of all and so before the step's     *)
(* 'finished' and before stepIndex is incremented; an advance past any     *)
(* other step synthesizes none.  'finished' is emitted either way, for     *)
(* that step, before the increment.                                        *)
C2_DelegatedPress ==
    [][Advanced =>
        LET step == mgr.currentStep
            rest == IF delegateClick(step) /\ IsAbstractButton(widget(step))
                    THEN Tail(emitted')
                    ELSE emitted'
        IN /\ (delegateClick(step) /\ IsAbstractButton(widget(step)))
                 => emitted'[1] = PressOn(step)
           /\ Count(rest, "click") = 0
           /\ rest # << >>
           /\ rest[1] = [ev |-> "finished", step |-> step, wdg |-> None,
                         idx |-> mgr.stepIndex]
           /\ mgr'.stepIndex = mgr.stepIndex + 1
      ]_vars

(* C2 as stated: every advance past a step with delegateClick=true         *)
(* synthesizes exactly one press on its target, every other none.          *)
C2_Original ==
    [][Advanced =>
        Count(emitted', "click") = IF delegateClick(mgr.currentStep) THEN 1 ELSE 0
      ]_vars

C2_Witness ==
    /\ lastOp.name = "clicked"
    /\ Len(emitted) >= 2
    /\ emitted[1].ev = "click" /\ emitted[1].wdg = "btn1"
    /\ emitted[2].ev = "finished" /\ emitted[2].step = 1
    /\ mgr.stepIndex = 2

(* A step is active: the gate has a target and a coachmark registered.    *)
StepActive ==
    /\ filt.widget # None
    /\ filt.mark # NoMark

InBounds(r, p) ==
    /\ p[1] >= r.x /\ p[1] < r.x + r.w
    /\ p[2] >= r.y /\ p[2] < r.y + r.h

(* The reference rule: the press lies within the bounds of the registered  *)
(* coachmark, or else within the bounds of the registered target.          *)
Allowed(p) ==
    \/ InBounds(marks[filt.mark].rect, p)
    \/ InBounds([x |-> WindowPos(layout)[1] + LocalRect(filt.widget).x,
                 y |-> WindowPos(layout)[2] + LocalRect(filt.widget).y,
                 w |-> LocalRect(filt.widget).w,
                 h |-> LocalRect(filt.widget).h], p)

(* C3 as stated: while a step is active the gate suppresses a pointer      *)
(* press exactly when it lies outside both the coachmark's bounds and the  *)
(* target's bounds, and suppresses no event that is not a pointer press;   *)
(* every decision recorded for a dispatched event agrees.                  *)
C3_GateRule ==
    StepActive =>
        /\ \A p \in Points : eventFilter(World, Press(p)) <=> ~ Allowed(p)
        /\ \A type \in EventTypes \ {"MouseButtonPress"}, p \in Points :
              ~ eventFilter(World, [type |-> type, pos |-> p])
        /\ (lastOp.name = "event" /\ lastOp.consumed) =>
              /\ lastOp.type = "MouseButtonPress"
              /\ \E p \in Points : ~ Allowed(p)

(* C4 as stated: with the gate installed and no target or no coachmark     *)
(* registered, every pointer press is let through.                         *)
C4_FailOpen ==
    (installed /\ (filt.widget = None \/ filt.mark = NoMark)) =>
        /\ \A p \in Points : ~ eventFilter(World, Press(p))
        /\ lastOp.name = "event" => ~ lastOp.consumed

EscapePressed == lastOp'.name = "escape" /\ lastOp'.onActive

Answered == lastOp'.name = "answer" /\ lastOp'.onActive

(* C5: Escape on the active coachmark opens the confirmation and leaves    *)
(* the manager, the gate and the signals alone.  When the confirmation of  *)
(* the active coachmark is answered: declined, the manager is unchanged    *)
(* (Running, same stepIndex, currentStep and coachmark), the coachmark is  *)
(* shown again, the gate stays installed and nothing is emitted; accepted, *)
(* exactly tourFinished is emitted, once, with no 'finished' and no press, *)
(* the gate is uninstalled and the manager is Idle.                        *)
C5_Escape ==
    [][/\ EscapePressed =>
             /\ mgr' = mgr
             /\ dialog' = mgr.mark
             /\ installed'
             /\ emitted' = << >>
       /\ Answered =>
             IF lastOp'.flag
             THEN /\ Count(emitted', "tourFinished") = 1
                  /\ Count(emitted', "finished") = 0
                  /\ Count(emitted', "click") = 0
                  /\ ~ installed'
                  /\ ~ mgr'.started
             ELSE /\ mgr' = mgr
                  /\ mgr'.started
                  /\ marks'[mgr'.mark].visible
                  /\ ~ marks'[mgr'.mark].closeAllowed
                  /\ installed'
                  /\ emitted' = << >>
      ]_vars

C5_Witness ==
    /\ lastOp.name = "answer" /\ lastOp.onActive /\ ~ lastOp.flag
    /\ mgr.started /\ mgr.stepIndex = 1
    /\ marks[mgr.mark].visible

PastEnd == mgr.stepIndex >= Len(RunningSteps(World))

(* C6: an advance triggered by the active coachmark that moves stepIndex   *)
(* past the end of the sequence terminates the tour exactly when           *)
(* finishOnComplete was true; otherwise no tourFinished is emitted, the    *)
(* manager stays Running with the gate installed, and its coachmark is     *)
(* closed.                                                                 *)
C6_FinishOnComplete ==
    (lastOp.name = "clicked" /\ lastOp.onActive /\ PastEnd) =>
        IF mgr.finishNext
        THEN /\ ~ mgr.started /\ ~ installed
             /\ Count(emitted, "tourFinished") = 1
             /\ mgr.mark = NoMark
        ELSE /\ mgr.started /\ installed
             /\ Count(emitted, "tourFinished") = 0
             /\ mgr.mark = NoMark \/ ~ marks[mgr.mark].visible

C6_Witness ==
    /\ lastOp.name = "clicked" /\ lastOp.onActive /\ PastEnd
    /\ ~ mgr.finishNext
    /\ Len(RunningSteps(World)) = 1
    /\ mgr.started

(* C7: run() emits tourStarted, and installs the gate, only on the         *)
(* transition from Idle to Running: called in Idle it emits it exactly     *)
(* once and installs the gate once; called while Running it emits none and *)
(* installs nothing, and with a non-empty sequence activates its first     *)
(* step.  No other entry emits tourStarted or installs the gate, but a     *)
(* call of start() itself, which is not the subject of the claim.          *)
C7_StartedOnce ==
    /\ (Count(emitted, "tourStarted") > 0 \/ Count(emitted, "installEventFilter") > 0)
          => \/ lastOp.name = "run" /\ ~ lastOp.wasStarted
             \/ lastOp.name = "start"
    /\ lastOp.name = "run" =>
          /\ Count(emitted, "tourStarted") = IF lastOp.wasStarted THEN 0 ELSE 1
          /\ Count(emitted, "installEventFilter") = IF lastOp.wasStarted THEN 0 ELSE 1
          /\ mgr.started /\ installed
          /\ RunningSteps(World) # << >> =>
                /\ mgr.stepIndex = 0
                /\ mgr.currentStep = RunningSteps(World)[1]
                /\ mgr.mark = Len(marks) /\ marks[mgr.mark].visible
                /\ marks[mgr.mark].step = mgr.currentStep

(* run() was called while Running, after a run with finishOnComplete=false *)
(* went past its end: it activated a step and emitted no tourStarted.      *)
C7_Witness ==
    /\ lastOp.name = "run" /\ lastOp.wasStarted
    /\ ~ mgr.finishNext
    /\ Len(marks) = 2 /\ ~ marks[1].visible /\ marks[2].visible
    /\ mgr.mark = 2
    /\ emitted # << >>
    /\ Count(emitted, "tourStarted") = 0

(* C8 as stated: finish() called in Idle has no observable effect, in      *)
(* particular emits no tourFinished.                                       *)
C8_FinishIdempotent ==
    (lastOp.name = "finish" /\ ~ lastOp.wasStarted) => emitted = << >>

(* C9: the gate is installed exactly while the manager is Running, and no  *)
(* entry installs it twice or removes it twice.                            *)
C9_GateIffRunning ==
    /\ installed <=> mgr.started
    /\ Count(emitted, "installEventFilter") <= 1
    /\ Count(emitted, "removeEventFilter") <= 1

C9_Witness ==
    /\ lastOp.name = "finish" /\ lastOp.wasStarted
    /\ ~ installed
    /\ Len(marks) = 2

(* C10: under every interleaving at most one TourManager is constructed    *)
(* and every call of instance() returns that one.                          *)
C10_OneInstance ==
    /\ constructed <= 1
    /\ \A t \in Threads : pc[t] = "done" => ret[t] # NoInstance
    /\ \A t, u \in Threads : (pc[t] = "done" /\ pc[u] = "done") => ret[t] = ret[u]

(* A thread that saw no instance at the lock-free check meets one at the   *)
(* check under the lock, while another already returned it.                *)
C10_Witness ==
    \E t, u \in Threads :
        /\ pc[t] = "check2" /\ instance # NoInstance
        /\ pc[u] = "done" /\ ret[u] = instance

(* A coachmark was constructed in this step.                               *)
Activated == Len(marks') > Len(marks)

(* The k-th step of an undisturbed tour is the active one after k - 1      *)
(* confirmations.                                                          *)
TourAtStep ==
    (tour.active /\ tour.confirmed < Len(tour.steps)) =>
        /\ mgr.started
        /\ mgr.stepIndex = tour.confirmed
        /\ mgr.currentStep = tour.steps[tour.confirmed + 1]
        /\ mgr.mark = Len(marks)
        /\ marks[mgr.mark].visible
        /\ marks[mgr.mark].step = tour.steps[tour.confirmed + 1]

(* C11: steps are activated in insertion order, none skipped or repeated.  *)
(* addStep appends its step and addSteps its batch, in the given order,    *)
(* after what was inserted before (a step is a batch of one); every        *)
(* activation constructs one coachmark, for the step at stepIndex of the   *)
(* running sequence, where stepIndex is 0 in run() and one more than       *)
(* before in an advance of the unchanged sequence; so the k-th coachmark   *)
(* of an undisturbed tour targets the k-th inserted step.                  *)
C11_InsertionOrder ==
    [][/\ lastOp'.name = "edit" =>
             \A q \in SeqIds :
                 seqs'[q] = seqs[q]
                     \/ \E steps \in Batches : seqs'[q] = seqs[q] \o steps
       /\ seqs' # seqs => lastOp'.name \in {"edit", "clear"}
       /\ Activated =>
             /\ Len(marks') = Len(marks) + 1
             /\ mgr'.mark = Len(marks')
             /\ mgr'.stepIndex < Len(seqs'[mgr'.sequence])
             /\ marks'[mgr'.mark].step = seqs'[mgr'.sequence][mgr'.stepIndex + 1]
             /\ mgr'.currentStep = marks'[mgr'.mark].step
             /\ lastOp'.name \in {"run", "clicked"}
             /\ mgr'.stepIndex = IF lastOp'.name = "run" THEN 0
                                 ELSE mgr.stepIndex + 1
             /\ lastOp'.name = "clicked" =>
                   mgr'.sequence = mgr.sequence /\ seqs' = seqs
       /\ TourAtStep'
      ]_vars

(* The third coachmark of a tour of three steps, of which the first and    *)
(* the third are the same step (the same widget) and the second another.   *)
C11_Witness ==
    /\ tour.active /\ tour.confirmed = 2
    /\ Len(tour.steps) = 3
    /\ tour.steps[1] = tour.steps[3] /\ tour.steps[1] # tour.steps[2]
    /\ mgr.stepIndex = 2
    /\ mgr.mark = 3 /\ marks[3].visible /\ marks[3].step = tour.steps[3]

(* An advance past the step whose finished signal the application's slot  *)
(* is connected to.                                                        *)
Appended ==
    /\ slots.signal = "finished"
    /\ lastOp'.name = "clicked" /\ emitted' # << >>
    /\ mgr.currentStep = slots.step

(* The steps the slot has appended to the sequence of the undisturbed      *)
(* tour: one for every finished of the step it is connected to.            *)
AppendedSteps(t) ==
    [i \in 1..Len(SelectSeq(t.emissions,
                            LAMBDA e : e.ev = "finished" /\ e.step = slots.step))
        |-> slots.arg]

(* C12: a step appended to the running sequence by a slot of a step's      *)
(* finished signal counts in that same advance.  The slot has appended its *)
(* step when the advance compares the incremented index with the length:   *)
(* the advance activates the step at the new index of the extended list,   *)
(* and so, when the step left was the last one, the appended step itself,  *)
(* with no tourFinished even under finishOnComplete.  The appended step    *)
(* is inserted at the end and stays there: the sequence of an undisturbed  *)
(* tour is the one it was run with followed by the appended steps, and a   *)
(* coachmark constructed at an index past the original steps, after as     *)
(* many advances as that index, is that of the step appended there.        *)
C12_AppendInHandler ==
    [][/\ Appended =>
             /\ seqs'[slots.seq] = Append(seqs[slots.seq], slots.arg)
             /\ Count(emitted', "finished") = 1
             /\ mgr'.stepIndex = mgr.stepIndex + 1
             /\ mgr'.sequence = mgr.sequence
             /\ IF mgr'.stepIndex < Len(seqs'[mgr.sequence])
                THEN /\ Activated
                     /\ marks'[mgr'.mark].step = seqs'[mgr.sequence][mgr'.stepIndex + 1]
                     /\ marks'[mgr'.mark].visible
                     /\ mgr'.started = mgr.started
                     /\ Count(emitted', "tourFinished") = 0
                ELSE ~ Activated
             /\ mgr.stepIndex + 1 = Len(seqs[mgr.sequence]) =>
                   /\ Activated
                   /\ marks'[mgr'.mark].step = slots.arg
       /\ (slots.signal = "finished" /\ tour'.active) =>
             /\ seqs'[mgr'.sequence] = tour'.steps \o AppendedSteps(tour')
             /\ (Activated /\ mgr'.stepIndex >= Len(tour'.steps)) =>
                   /\ mgr'.stepIndex = tour'.confirmed
                   /\ seqs'[mgr'.sequence][mgr'.stepIndex + 1] = slots.arg
                   /\ marks'[mgr'.mark].step = slots.arg
                   /\ marks'[mgr'.mark].visible
      ]_vars

(* The slot of the first of two steps appended a third, which the second   *)
(* advance after activated, at index 2 where it was inserted.              *)
C12_Witness ==
    /\ slots.signal = "finished"
    /\ lastOp.name = "clicked" /\ lastOp.onActive
    /\ tour.active /\ tour.confirmed = 2
    /\ Len(tour.steps) = 2
    /\ tour.steps[1] = slots.step /\ tour.steps[2] # slots.step
    /\ seqs[slots.seq] = tour.steps \o <<slots.arg>>
    /\ mgr.started /\ mgr.stepIndex = 2
    /\ Len(marks) = 3 /\ marks[3].visible /\ marks[3].step = slots.arg

InRange == mgr.stepIndex >= 0 /\ mgr.stepIndex < Len(RunningSteps(World))

(* C13 as stated: the manager's coachmark is non-null exactly when the     *)
(* manager is started and stepIndex is within [0, len(sequence)).          *)
C13_MarkIffInRange ==
    mgr.mark # NoMark <=> (mgr.started /\ InRange)

(* run() or _next ran in this step.                                        *)
Stepped ==
    \/ lastOp'.name = "run"
    \/ lastOp'.name = "clicked" /\ emitted' # << >>

(* C14 as amended: stepIndex is never negative and the step list is never  *)
(* indexed out of range, so that no entry raises: run() and the advance    *)
(* subscript the list exactly when the index they have just set is below   *)
(* its length, and the coachmark they construct is for the step found      *)
(* there.  While started, stepIndex may equal or exceed the length.        *)
C14_IndexGuarded ==
    [][/\ mgr'.stepIndex >= 0
       /\ ~ lastOp'.raised
       /\ Stepped => (Activated <=> mgr'.stepIndex < Len(seqs'[mgr'.sequence]))
       /\ Activated =>
             marks'[mgr'.mark].step = seqs'[mgr'.sequence][mgr'.stepIndex + 1]
      ]_vars

(* C14 as stated: whenever the manager is started, stepIndex is within     *)
(* [0, len(sequence)).                                                     *)
C14_Original == mgr.started => InRange

(* The advance past the last of two steps, finishOnComplete being false,   *)
(* met the guard: nothing was subscripted and the manager is still started.*)
C14_Witness ==
    /\ lastOp.name = "clicked" /\ lastOp.onActive /\ ~ lastOp.raised
    /\ mgr.started
    /\ Len(RunningSteps(World)) = 2
    /\ mgr.stepIndex = 2

(* The coachmarks that are shown; the clicked and terminate signals of     *)
(* every coachmark stay connected to the manager for as long as it lives.  *)
Alive == { m \in MarkIds : marks[m].visible }

(* C15 as stated: at most one coachmark is alive in every reachable state. *)
C15_OneCoachmark == Cardinality(Alive) <= 1

Cutout(step) ==
    [x |-> LocalRect(widget(step)).x, y |-> LocalRect(widget(step)).y,
     w |-> LocalRect(widget(step)).w, h |-> LocalRect(widget(step)).h]

(* C16: the overlay is created only by an activation that finds none, is   *)
(* reused by every activation that finds one, which only sets its mask to  *)
(* the cutout of the new target, and is torn down only by finish(), after  *)
(* which the manager holds none; so between two finish() it is created at  *)
(* most once, by the first activation.  An undisturbed tour has its        *)
(* overlay from its first activation on.                                   *)
C16_OverlayReuse ==
    [][/\ Count(emitted', "overlay") <= 1
       /\ Count(emitted', "overlay") = 1 =>
             mgr.overlay = None /\ Activated /\ mgr'.overlay # None
       /\ (Activated /\ mgr.overlay # None) =>
             /\ Count(emitted', "overlay") = 0
             /\ mgr'.overlay = mgr.overlay
       /\ Activated => overlayMask' = Cutout(mgr'.currentStep)
       /\ (~ Activated /\ mgr'.overlay # None) =>
             mgr'.overlay = mgr.overlay /\ overlayMask' = overlayMask
       /\ (mgr.overlay # None /\ mgr'.overlay = None) =>
             Count(emitted', "tourFinished") = 1
       /\ Count(emitted', "tourFinished") > 0 =>
             mgr'.overlay = None /\ overlayMask' = NoRect
       /\ (tour'.active /\ tour'.steps # << >> /\ mgr'.started) =>
             mgr'.overlay # None
      ]_vars

(* The second step of a tour was activated on the overlay the first one    *)
(* created: only the mask moved.                                           *)
C16_Witness ==
    /\ lastOp.name = "clicked" /\ lastOp.onActive
    /\ tour.active /\ tour.confirmed = 1 /\ Len(tour.steps) = 2
    /\ mgr.overlay # None
    /\ Count(emitted, "overlay") = 0
    /\ overlayMask = Cutout(tour.steps[2])
    /\ tour.steps[1] # tour.steps[2]

(* The coachmarks that were shown before this step and are not after it.   *)
ClosedNow == { m \in MarkIds : marks[m].visible /\ ~ marks'[m].visible }

(* C17 as amended: a coachmark accepts a close request exactly when its    *)
(* closeAllowed flag is set.  Its own activation path sets the flag and    *)
(* closes it at once; Escape sets it before the confirmation is asked, so  *)
(* a close request that arrives while the confirmation is pending is       *)
(* accepted; a declined confirmation shows the coachmark again with the    *)
(* flag cleared, a confirmed one leaves the flag set.  A close request at  *)
(* any other moment is ignored and the coachmark stays open.               *)
C17_CloseSanctioned ==
    [][/\ \A m \in ClosedNow :
             \/ lastOp'.name = "clicked"
             \/ lastOp'.name = "close" /\ lastOp'.closed /\ marks[m].closeAllowed
       /\ Cardinality(ClosedNow) <= 1
       /\ lastOp'.closed => lastOp'.name = "close"
       /\ lastOp'.name = "close" => lastOp'.closed /\ ClosedNow # {}
       /\ (dialog # NoMark /\ lastOp'.name = "answer" /\ ~ lastOp'.flag) =>
             /\ ClosedNow = {}
             /\ marks'[dialog].visible /\ ~ marks'[dialog].closeAllowed
       /\ \A m \in MarkIds :
             (marks'[m].visible /\ marks'[m].closeAllowed) =>
                 \/ marks[m].visible /\ marks[m].closeAllowed
                 \/ lastOp'.name = "escape" /\ dialog' = m
      ]_vars

(* C17 as stated: a close request from outside is never accepted by a      *)
(* coachmark whose Escape confirmation is pending.                         *)
C17_Original ==
    [][\A m \in ClosedNow : lastOp'.name = "close" => dialog # m]_vars

(* A close request was accepted while the confirmation was pending.        *)
C17_Witness ==
    /\ lastOp.name = "close" /\ lastOp.closed
    /\ dialog # NoMark
    /\ ~ marks[dialog].visible /\ marks[dialog].closeAllowed

(* An input to a coachmark reached its handlers in this step.              *)
Interacted ==
    lastOp'.name \in {"clicked", "escape", "answer", "key", "close"}

(* C18 as stated: while the manager is Idle no interaction with a          *)
(* coachmark emits a step's finished, synthesizes a press, changes         *)
(* stepIndex or activates a step.                                          *)
C18_InertWhenIdle ==
    [][(~ mgr.started /\ Interacted) =>
          /\ Count(emitted', "finished") = 0
          /\ Count(emitted', "click") = 0
          /\ mgr'.stepIndex = mgr.stepIndex
          /\ ~ Activated
          /\ ~ mgr'.started
      ]_vars

(* C19 as stated: whenever the manager is Running with an active          *)
(* coachmark, the overlay exists, the gate is installed and the manager's  *)
(* state is that of the tour of this coachmark; also after a finish()      *)
(* during which a slot of tourFinished called run().                       *)
C19_RunningHasOverlay ==
    (mgr.started /\ mgr.mark # NoMark /\ marks[mgr.mark].visible) =>
        /\ mgr.overlay # None
        /\ overlayMask = Cutout(mgr.currentStep)
        /\ installed
        /\ filt.mark = mgr.mark
        /\ marks[mgr.mark].step = mgr.currentStep

(* The slot of the target's clicked signal ran in this step.               *)
ClickedSlotRan ==
    /\ slots.signal = "clicked"
    /\ \E i \in 1..Len(emitted') :
          emitted'[i].ev = "click" /\ emitted'[i].wdg = slots.wdg

(* C20 as stated: an advance triggered by the active coachmark emits the   *)
(* finished of the step of that coachmark and of no other, and then        *)
(* activates the step that follows it; when the synthesized press runs a   *)
(* slot that calls run() with a new sequence, step 0 of that sequence gets *)
(* no finished and is the active step afterwards.                          *)
C20_AdvanceOwnStep ==
    [][(Advanced /\ lastOp'.onActive) =>
          /\ \A i \in 1..Len(emitted') :
                emitted'[i].ev = "finished" => emitted'[i].step = mgr.currentStep
          /\ Count(emitted', "finished") = 1
          /\ (~ ClickedSlotRan /\ Activated
                /\ Count(emitted', "tourFinished") = 0) =>
                /\ mgr'.stepIndex = mgr.stepIndex + 1
                /\ mgr'.currentStep = seqs'[mgr.sequence][mgr.stepIndex + 2]
          /\ ClickedSlotRan =>
                /\ mgr'.stepIndex = 0
                /\ mgr'.currentStep = seqs'[mgr'.sequence][1]
      ]_vars

====
